---- MODULE Spec2Model ----
(***************************************************************************)
(* Model of backend_api.py: the column alias resolver, the plan executor   *)
(* (_apply_filters, _execute_plan) and the /api/upload and /api/ask        *)
(* handlers with their in-memory session store.                            *)
(*                                                                         *)
(* Strings that the code normalises (column names, task and aggregate      *)
(* names) are sequences of one-character strings, so that strip(), lower() *)
(* and the isalnum() filter are computed character by character.           *)
(* Table cells are integers (numeric spreadsheet columns); every numeric   *)
(* value is a pair <<numerator, denominator>>, NaN being <<0, 0>>.         *)
(***************************************************************************)
EXTENDS Integers, Sequences, FiniteSets, TLC

\* ------------------------------------------------------------------------
\* Characters and strings
\* ------------------------------------------------------------------------
UpperChars == <<"A","B","C","D","E","F","G","H","I","J","K","L","M",
                "N","O","P","Q","R","S","T","U","V","W","X","Y","Z">>
LowerChars == <<"a","b","c","d","e","f","g","h","i","j","k","l","m",
                "n","o","p","q","r","s","t","u","v","w","x","y","z">>
DigitChars == {"0","1","2","3","4","5","6","7","8","9"}

Range(s) == {s[i] : i \in DOMAIN s}

\* str.lower() on one character
LowerChar(ch) ==
  IF \E i \in DOMAIN UpperChars : UpperChars[i] = ch
  THEN LowerChars[CHOOSE i \in DOMAIN UpperChars : UpperChars[i] = ch]
  ELSE ch

\* str.lower()
Lower(s) == [i \in DOMAIN s |-> LowerChar(s[i])]

\* str.isalnum() on one character
IsAlnum(ch) == ch \in Range(UpperChars) \cup Range(LowerChars) \cup DigitChars

IsSpace(ch) == ch = " "

\* str.strip(): drop leading and trailing whitespace
RECURSIVE LStrip(_)
LStrip(s) == IF s # <<>> /\ IsSpace(Head(s)) THEN LStrip(Tail(s)) ELSE s

RECURSIVE RStrip(_)
RStrip(s) ==
  IF s # <<>> /\ IsSpace(s[Len(s)]) THEN RStrip(SubSeq(s, 1, Len(s) - 1)) ELSE s

Strip(s) == RStrip(LStrip(s))

\* "".join(ch for ch in s if keep(ch))
RECURSIVE KeepAlnumUnderscore(_)
KeepAlnumUnderscore(s) ==
  IF s = <<>> THEN <<>>
  ELSE IF IsAlnum(Head(s)) \/ Head(s) = "_"
       THEN <<Head(s)>> \o KeepAlnumUnderscore(Tail(s))
       ELSE KeepAlnumUnderscore(Tail(s))

\* c.replace(" ", "_")
ReplaceSpaceByUnderscore(s) == [i \in DOMAIN s |-> IF s[i] = " " THEN "_" ELSE s[i]]

\* "_".join((a, b))
JoinUnderscore(a, b) == a \o <<"_">> \o b

\* Column names and other strings of the model
unit_size       == <<"u","n","i","t","_","s","i","z","e">>
Unit_Space_Size == <<"U","n","i","t"," ","S","i","z","e">>
UnitSize        == <<"U","n","i","t","S","i","z","e">>
rent            == <<"r","e","n","t">>
nonexistent_col == <<"n","o","p","e">>
star            == <<"*">>
count           == <<"c","o","u","n","t">>
sum             == <<"s","u","m">>
mean            == <<"m","e","a","n">>
avg             == <<"a","v","g">>
median          == <<"m","e","d","i","a","n">>
min             == <<"m","i","n">>
max             == <<"m","a","x">>
nunique         == <<"n","u","n","i","q","u","e">>
MAX_upper       == <<"M","A","X">>
stdev           == <<"s","t","d","e","v">>
aggregate       == <<"a","g","g","r","e","g","a","t","e">>
groupby         == <<"g","r","o","u","p","b","y">>
summarize       == <<"s","u","m","m","a","r","i","z","e">>
summary         == <<"s","u","m","m","a","r","y">>
list_rows       == <<"l","i","s","t","_","r","o","w","s">>
rows            == <<"r","o","w","s">>
topk            == <<"t","o","p","k">>
rank            == <<"r","a","n","k">>
TopK_mixed      == <<"T","o","p","K">>
describe        == <<"d","e","s","c","r","i","b","e">>
None            == <<>>

\* ------------------------------------------------------------------------
\* Column normalization / matching
\* ------------------------------------------------------------------------
_normalize(name) == KeepAlnumUnderscore(Lower(Strip(name)))

\* dict assignment m[key] = val
DictSet(m, key, val) ==
  [x \in DOMAIN m \cup {key} |-> IF x = key THEN val ELSE m[x]]

EmptyDict == [x \in {} |-> None]

RECURSIVE AliasFold(_, _)
AliasFold(columns, aliases) ==
  IF columns = <<>> THEN aliases
  ELSE LET c  == Head(columns)
           a1 == DictSet(aliases, _normalize(c), c)
           a2 == DictSet(a1, _normalize(ReplaceSpaceByUnderscore(c)), c)
       IN AliasFold(Tail(columns), a2)

_column_alias_map(columns) == AliasFold(columns, EmptyDict)

\* alias_map.get(_normalize(name), name), name returned as is when falsy
map_col(name, alias_map) ==
  IF name = None THEN name
  ELSE LET key == _normalize(name)
       IN IF key \in DOMAIN alias_map THEN alias_map[key] ELSE name

_remap_plan_columns(plan, alias_map) ==
  [plan EXCEPT
     !.filters = [i \in DOMAIN plan.filters |->
                    [plan.filters[i] EXCEPT !.column = map_col(@, alias_map)]],
     !.groupby = [i \in DOMAIN plan.groupby |-> map_col(plan.groupby[i], alias_map)],
     !.metrics = [i \in DOMAIN plan.metrics |->
                    [plan.metrics[i] EXCEPT !.column = map_col(@, alias_map)]],
     !.sort    = [i \in DOMAIN plan.sort |->
                    [plan.sort[i] EXCEPT !.column = map_col(@, alias_map)]],
     !.rank_by = IF plan.rank_by # None THEN map_col(plan.rank_by, alias_map)
                 ELSE plan.rank_by]

\* ------------------------------------------------------------------------
\* Values, rows and tables
\* ------------------------------------------------------------------------
NaN == <<0, 0>>
Num(n) == <<n, 1>>
IsNaN(v) == v[2] = 0

Abs(n) == IF n < 0 THEN -n ELSE n

\* min(a, b)
Smaller(a, b) == IF a < b THEN a ELSE b

RECURSIVE GCD(_, _)
GCD(a, b) == IF b = 0 THEN a ELSE GCD(b, a % b)

\* the quotient n / d as a reduced fraction (d > 0)
Ratio(n, d) == LET g == GCD(Abs(n), d) IN <<n \div g, d \div g>>

\* a < b on non-NaN values
ValLess(a, b) == a[1] * b[2] < b[1] * a[2]

\* str(n) of a non-negative integer, as characters
DigitOf(d) == CASE d = 0 -> "0" [] d = 1 -> "1" [] d = 2 -> "2" [] d = 3 -> "3"
                [] d = 4 -> "4" [] d = 5 -> "5" [] d = 6 -> "6" [] d = 7 -> "7"
                [] d = 8 -> "8" [] d = 9 -> "9"

RECURSIVE StrOfNat(_)
StrOfNat(n) == IF n < 10 THEN <<DigitOf(n)>> ELSE StrOfNat(n \div 10) \o <<DigitOf(n % 10)>>

\* str(val) of an optional integer: <<>> is None, <<n>> is n
StrOfOpt(val) == IF val = <<>> THEN <<"N","o","n","e">> ELSE StrOfNat(val[1])

\* needle in hay (substring test)
Contains(hay, needle) ==
  \E i \in 1..(Len(hay) - Len(needle) + 1) : SubSeq(hay, i, i + Len(needle) - 1) = needle

\* DataFrame.head(n): first n rows, all but the last -n when n is negative
DfHead(rs, n) ==
  IF n >= 0 THEN SubSeq(rs, 1, IF n < Len(rs) THEN n ELSE Len(rs))
  ELSE SubSeq(rs, 1, IF Len(rs) + n > 0 THEN Len(rs) + n ELSE 0)

\* ------------------------------------------------------------------------
\* Safe pandas executor
\* ------------------------------------------------------------------------
ALLOWED_AGGS == {count, sum, mean, avg, median, min, max, nunique}

\* RENAME_AGG.get(agg, agg)
RENAME_AGG(agg) == IF agg = avg THEN mean ELSE agg

\* the row mask of one filter clause on an existing column
FilterMask(f, row) ==
  LET c == row[f.column][1]
  IN CASE f.op \in {"eq", "=="} ->
            Lower(StrOfNat(c)) = Lower(StrOfOpt(f.value))
       [] f.op \in {"ne", "!="} ->
            Lower(StrOfNat(c)) # Lower(StrOfOpt(f.value))
       [] f.op \in {">", "gt"} ->
            f.value # <<>> /\ c > f.value[1]
       [] f.op \in {"<", "lt"} ->
            f.value # <<>> /\ c < f.value[1]
       [] f.op \in {"contains", "icontains"} ->
            Contains(Lower(StrOfNat(c)), Lower(StrOfOpt(f.value)))
       [] f.op \in {"between"} ->
            f.low # <<>> /\ f.high # <<>> /\ c >= f.low[1] /\ c <= f.high[1]
       [] f.op \in {"date_between"} ->
            f.start # <<>> /\ f.end # <<>> /\ c >= f.start[1] /\ c <= f.end[1]
       [] OTHER -> TRUE

RECURSIVE FilterFold(_, _, _)
FilterFold(cols, rs, filters) ==
  IF filters = <<>> THEN rs
  ELSE LET f == Head(filters)
       IN IF f.column = None \/ f.column \notin Range(cols)
          THEN FilterFold(cols, rs, Tail(filters))
          ELSE LET keep(row) == FilterMask(f, row)
               IN FilterFold(cols, SelectSeq(rs, keep), Tail(filters))

_apply_filters(df, filters) ==
  [cols |-> df.cols, rows |-> FilterFold(df.cols, df.rows, filters)]

\* int(x or default) of an optional integer: None and 0 are both falsy
IntOr(opt, default) == IF opt = <<>> \/ opt[1] = 0 THEN default ELSE opt[1]

DEFAULT_LIMIT == 50
DEFAULT_K == 10

NoTable == [cols |-> <<>>, rows |-> <<>>]
Msg(text, n, by) == [text |-> text, n |-> n, by |-> by]

\* the three ways _execute_plan ends: (msg, table), (msg, None), an exception
Returned(msg, table) == [raised |-> FALSE, msg |-> msg, present |-> TRUE, table |-> table]
ReturnedNone(msg) == [raised |-> FALSE, msg |-> msg, present |-> FALSE, table |-> NoTable]
Raised == [raised |-> TRUE, msg |-> Msg("", 0, None), present |-> FALSE, table |-> NoTable]

IndexOf(s, x) == CHOOSE i \in DOMAIN s : s[i] = x

\* a row given by its column names and the values in the same order
RowOf(names, vals) == [c \in Range(names) |-> vals[IndexOf(names, c)]]

\* the integer cells of one column
ColVals(rs, col) == [i \in DOMAIN rs |-> rs[i][col][1]]

RECURSIVE SeqSum(_)
SeqSum(xs) == IF xs = <<>> THEN 0 ELSE Head(xs) + SeqSum(Tail(xs))

SeqMin(xs) == CHOOSE x \in Range(xs) : \A y \in Range(xs) : x <= y
SeqMax(xs) == CHOOSE x \in Range(xs) : \A y \in Range(xs) : x >= y

\* xs without its first occurrence of x
RECURSIVE RemoveOne(_, _)
RemoveOne(xs, x) ==
  IF xs = <<>> THEN <<>>
  ELSE IF Head(xs) = x THEN Tail(xs) ELSE <<Head(xs)>> \o RemoveOne(Tail(xs), x)

RECURSIVE SortInts(_)
SortInts(xs) ==
  IF xs = <<>> THEN <<>>
  ELSE LET m == SeqMin(xs) IN <<m>> \o SortInts(RemoveOne(xs, m))

SeqMedian(xs) ==
  LET srt == SortInts(xs)
      n   == Len(xs)
  IN IF n % 2 = 1 THEN Num(srt[(n + 1) \div 2])
     ELSE Ratio(srt[n \div 2] + srt[n \div 2 + 1], 2)

\* one pandas reduction of a column of integers (NaN on an empty column where
\* pandas gives NaN)
AggValue(agg, xs) ==
  CASE agg = count   -> Num(Len(xs))
    [] agg = sum     -> Num(SeqSum(xs))
    [] agg = nunique -> Num(Cardinality(Range(xs)))
    [] agg = mean    -> IF xs = <<>> THEN NaN ELSE Ratio(SeqSum(xs), Len(xs))
    [] agg = median  -> IF xs = <<>> THEN NaN ELSE SeqMedian(xs)
    [] agg = min     -> IF xs = <<>> THEN NaN ELSE Num(SeqMin(xs))
    [] agg = max     -> IF xs = <<>> THEN NaN ELSE Num(SeqMax(xs))

\* permutations of 1..n
Perms(n) == {p \in [1..n -> 1..n] : \A i, j \in 1..n : p[i] = p[j] => i = j}

\* a before b is a legal order for sort_values (NaN last in both directions)
InOrder(a, b, ascending) ==
  IF IsNaN(b) THEN TRUE
  ELSE IF IsNaN(a) THEN FALSE
  ELSE IF ascending THEN ~ValLess(b, a) ELSE ~ValLess(a, b)

\* a and b compare equal as sort keys
Tied(a, b) ==
  \/ IsNaN(a) /\ IsNaN(b)
  \/ ~IsNaN(a) /\ ~IsNaN(b) /\ ~ValLess(a, b) /\ ~ValLess(b, a)

\* DataFrame.sort_values(by=col, ascending=...): the default kind "quicksort"
\* promises no order of tied rows, but numpy sorts arrays as short as the
\* tables here by insertion, and pandas reverses a descending key before and
\* after the sort, so tied rows keep their order in both directions
sort_values(rs, col, ascending) ==
  {[i \in DOMAIN rs |-> rs[p[i]]] : p \in
     {q \in Perms(Len(rs)) :
        \A i, j \in 1..Len(rs) :
          i < j => IF Tied(rs[q[i]][col], rs[q[j]][col]) THEN q[i] < q[j]
                   ELSE InOrder(rs[q[i]][col], rs[q[j]][col], ascending)}}

\* s.get("direction", "asc") == "asc"
Ascending(s) == (IF s.direction = <<>> THEN "asc" ELSE s.direction[1]) = "asc"

\* for s in sort: out = out.sort_values(by=s["column"], ...); the set of
\* possible outcomes, a sort key that is not a column raising KeyError
RECURSIVE SortStage(_, _, _)
SortStage(cols, rs, sort) ==
  IF sort = <<>> THEN {[raised |-> FALSE, rows |-> rs]}
  ELSE LET s == Head(sort)
       IN IF s.column \notin Range(cols) THEN {[raised |-> TRUE, rows |-> <<>>]}
          ELSE UNION {SortStage(cols, r2, Tail(sort)) :
                        r2 \in sort_values(rs, s.column, Ascending(s))}

\* sort (when given), head(limit) and return
SortLimitReturn(msg, cols, rs, sort, limit) ==
  {IF o.raised THEN Raised
   ELSE Returned(msg, [cols |-> cols, rows |-> DfHead(o.rows, limit)]) :
     o \in SortStage(cols, rs, sort)}

\* groupby keys: the values of the key columns of a row
KeyOf(row, gby) == [i \in DOMAIN gby |-> row[gby[i]]]

\* lexicographic order of group keys
RECURSIVE KeyLess(_, _)
KeyLess(a, b) ==
  IF a = <<>> THEN FALSE
  ELSE IF ValLess(Head(a), Head(b)) THEN TRUE
  ELSE IF ValLess(Head(b), Head(a)) THEN FALSE
  ELSE KeyLess(Tail(a), Tail(b))

\* groupby(..., dropna=False) with the default sort=True: the group keys in
\* ascending order
RECURSIVE SortKeys(_)
SortKeys(keys) ==
  IF keys = {} THEN <<>>
  ELSE LET m == CHOOSE k \in keys : \A o \in keys \ {k} : KeyLess(k, o)
       IN <<m>> \o SortKeys(keys \ {m})

GroupKeys(rs, gby) == SortKeys({KeyOf(rs[i], gby) : i \in DOMAIN rs})

GroupRows(rs, gby, key) == LET in(row) == KeyOf(row, gby) = key IN SelectSeq(rs, in)

\* agg_map.setdefault(col, []).append(agg) on an insertion-ordered dict
AggMapAppend(agg_map, col, agg) ==
  IF \E i \in DOMAIN agg_map : agg_map[i].column = col
  THEN [i \in DOMAIN agg_map |->
          IF agg_map[i].column = col
          THEN [agg_map[i] EXCEPT !.aggs = Append(@, agg)]
          ELSE agg_map[i]]
  ELSE Append(agg_map, [column |-> col, aggs |-> <<agg>>])

\* the loop over the metrics: it ends at the first column-less (or "*")
\* count it meets, else with the agg_map of the valid metrics
RECURSIVE MetricLoop(_, _, _)
MetricLoop(metrics, cols, agg_map) ==
  IF metrics = <<>> THEN [count_only |-> FALSE, agg_map |-> agg_map]
  ELSE LET m   == Head(metrics)
           agg == RENAME_AGG(Lower(m.agg))
           col == m.column
       IN IF agg \notin ALLOWED_AGGS
          THEN MetricLoop(Tail(metrics), cols, agg_map)
          ELSE IF agg = count /\ (col = None \/ col = star)
          THEN [count_only |-> TRUE, agg_map |-> agg_map]
          ELSE IF col # None /\ col \in Range(cols)
          THEN MetricLoop(Tail(metrics), cols, AggMapAppend(agg_map, col, agg))
          ELSE MetricLoop(Tail(metrics), cols, agg_map)

\* pd.DataFrame({"count": [len(work)]}) or gb.size().reset_index(name="count")
CountTable(work, gby) ==
  IF gby = <<>>
  THEN [cols |-> <<count>>, rows |-> <<RowOf(<<count>>, <<Num(Len(work.rows))>>)>>]
  ELSE LET keys == GroupKeys(work.rows, gby)
           cols == gby \o <<count>>
       IN [cols |-> cols,
           rows |-> [i \in DOMAIN keys |->
                       RowOf(cols, keys[i] \o <<Num(Len(GroupRows(work.rows, gby, keys[i])))>>)]]

\* the (column, agg) pairs of agg_map in column order
RECURSIVE AggPairs(_)
AggPairs(agg_map) ==
  IF agg_map = <<>> THEN <<>>
  ELSE [j \in DOMAIN Head(agg_map).aggs |->
          [column |-> Head(agg_map).column, agg |-> Head(agg_map).aggs[j]]]
       \o AggPairs(Tail(agg_map))

\* gb.agg(agg_map).reset_index() with the columns flattened by "_".join: the
\* key columns come back as (key, "") and the value columns as (column, agg)
GroupedTable(work, gby, agg_map) ==
  LET keys  == GroupKeys(work.rows, gby)
      pairs == AggPairs(agg_map)
      cols  == [i \in DOMAIN gby |-> JoinUnderscore(gby[i], <<>>)]
               \o [j \in DOMAIN pairs |-> JoinUnderscore(pairs[j].column, pairs[j].agg)]
  IN [cols |-> cols,
      rows |-> [i \in DOMAIN keys |->
                  RowOf(cols, keys[i] \o
                    [j \in DOMAIN pairs |->
                       AggValue(pairs[j].agg,
                                ColVals(GroupRows(work.rows, gby, keys[i]), pairs[j].column))])]]

\* the row labels of work.agg(agg_map): one per distinct aggregate, in the
\* order given when every column has the same list; when the lists differ the
\* order of the union depends on the pandas version, so any order is possible
AggLabels(agg_map) ==
  IF \A i \in DOMAIN agg_map : agg_map[i].aggs = agg_map[1].aggs
  THEN {agg_map[1].aggs}
  ELSE LET labels == UNION {Range(agg_map[i].aggs) : i \in DOMAIN agg_map}
           n      == Cardinality(labels)
       IN {s \in [1..n -> labels] : \A i, j \in 1..n : s[i] = s[j] => i = j}

\* work.agg(agg_map) on the whole table: a frame with one row per aggregate
\* label and one column per aggregated column (named by the column alone),
\* NaN where the column did not ask for that aggregate
UngroupedTables(work, agg_map) ==
  LET cols == [i \in DOMAIN agg_map |-> agg_map[i].column]
  IN {[cols |-> cols,
       rows |-> [j \in DOMAIN labels |->
                   [c \in Range(cols) |->
                      IF labels[j] \in Range(agg_map[IndexOf(cols, c)].aggs)
                      THEN AggValue(labels[j], ColVals(work.rows, c))
                      ELSE NaN]]] : labels \in AggLabels(agg_map)}

\* _execute_plan(df, plan): the set of its possible outcomes
_execute_plan(df, plan) ==
  LET task    == Lower(IF plan.task = None THEN aggregate ELSE plan.task)
      filters == plan.filters
      gby     == plan.groupby
      metrics == plan.metrics
      limit   == IntOr(plan.limit, DEFAULT_LIMIT)
      sort    == plan.sort
      \* pd.to_numeric(work[col], errors="ignore") leaves integer cells as is
      work    == _apply_filters(df, filters)
      gbyOk   == \A i \in DOMAIN gby : gby[i] \in Range(work.cols)
  IN IF task \in {list_rows, rows}
     THEN IF ~gbyOk THEN {Raised}
          ELSE LET cols == IF gby # <<>> THEN gby ELSE work.cols
                   out  == DfHead([i \in DOMAIN work.rows |->
                                     [c \in Range(cols) |-> work.rows[i][c]]], limit)
               IN {Returned(Msg("Showing up to", Len(out), None),
                            [cols |-> cols, rows |-> out])}
     ELSE IF task \in {aggregate, groupby, summarize, summary}
     THEN IF ~gbyOk THEN {Raised}
          ELSE LET loop == MetricLoop(metrics, work.cols, <<>>)
               IN IF loop.count_only \/ loop.agg_map = <<>>
                  THEN LET out == CountTable(work, gby)
                       IN SortLimitReturn(Msg("Computed counts.", 0, None),
                                          out.cols, out.rows, sort, limit)
                  ELSE IF gby = <<>>
                  THEN UNION {SortLimitReturn(Msg("Computed summary metrics.", 0, None),
                                              out.cols, out.rows, sort, limit) :
                                out \in UngroupedTables(work, loop.agg_map)}
                  ELSE LET out == GroupedTable(work, gby, loop.agg_map)
                       IN SortLimitReturn(Msg("Computed grouped summary metrics.", 0, None),
                                          out.cols, out.rows, sort, limit)
     ELSE IF task \in {topk, rank}
     THEN LET k       == IntOr(plan.k, DEFAULT_K)
              rank_by == plan.rank_by
          IN IF rank_by # None /\ rank_by \in Range(work.cols)
             THEN {Returned(Msg("Top", k, rank_by),
                            [cols |-> work.cols, rows |-> DfHead(rs, k)]) :
                     rs \in sort_values(work.rows, rank_by, FALSE)}
             ELSE {ReturnedNone(Msg("Ranking failed: missing rank_by column.", 0, None))}
     ELSE LET out == DfHead(work.rows, limit)
          IN {Returned(Msg("Showing up to", Len(out), None),
                       [cols |-> work.cols, rows |-> out])}

\* ------------------------------------------------------------------------
\* Inputs of the executor: tables and plans
\* ------------------------------------------------------------------------
MaxRows == 2
MaxCell == 2

\* pd.concat(..., sort=True) leaves the data columns in sorted order
DataColumns == <<rent, unit_size>>

DataRows == {RowOf(DataColumns, <<Num(r), Num(u)>>) : r \in 1..MaxCell, u \in 1..MaxCell}

\* ask_question answers 400 on an empty frame, so the executor gets tables
\* with at least one row
TableSet == {[cols |-> DataColumns, rows |-> rs] :
               rs \in UNION {[1..n -> DataRows] : n \in 1..MaxRows}}

Filter(column, op, value) ==
  [column |-> column, op |-> op, value |-> value,
   low |-> <<>>, high |-> <<>>, start |-> <<>>, end |-> <<>>]
Between(column, lo, hi) ==
  [column |-> column, op |-> "between", value |-> <<>>,
   low |-> lo, high |-> hi, start |-> <<>>, end |-> <<>>]
DateBetween(column, lo, hi) ==
  [column |-> column, op |-> "date_between", value |-> <<>>,
   low |-> <<>>, high |-> <<>>, start |-> lo, end |-> hi]
Metric(agg, column) == [agg |-> agg, column |-> column]
SortKey(column, direction) == [column |-> column, direction |-> direction]

Spellings == {unit_size, Unit_Space_Size, UnitSize}

CoreFilters ==
  { <<>>,
    <<Filter(unit_size, "eq", <<1>>)>>,
    <<Filter(nonexistent_col, "eq", <<1>>)>>,
    <<Filter(rent, "lt", <<1>>)>> }

OpFilters ==
  { <<Filter(unit_size, "ne", <<1>>)>>,
    <<Filter(rent, "gt", <<1>>)>>,
    <<Filter(rent, "contains", <<2>>)>>,
    <<Filter(rent, "eq", <<>>)>>,
    <<Between(rent, <<1>>, <<1>>)>>,
    <<Between(rent, <<1>>, <<>>)>>,
    <<DateBetween(rent, <<2>>, <<2>>)>>,
    <<Filter(rent, "like", <<1>>)>>,
    <<Filter(unit_size, "==", <<2>>), Filter(rent, ">", <<1>>)>> }

\* metrics never repeat an (aggregate, column) pair and never aggregate a
\* groupby key: what pandas does with those depends on its version
RentMetrics ==
  { <<>>,
    <<Metric(count, None)>>,
    <<Metric(count, rent)>>,
    <<Metric(mean, rent)>>,
    <<Metric(avg, rent)>>,
    <<Metric(mean, rent), Metric(max, rent)>>,
    <<Metric(mean, rent), Metric(count, None)>>,
    <<Metric(count, star), Metric(sum, rent)>>,
    <<Metric(sum, nonexistent_col)>>,
    <<Metric(sum, nonexistent_col), Metric(mean, rent)>>,
    <<Metric(stdev, rent)>>,
    <<Metric(None, rent), Metric(median, rent), Metric(nunique, rent)>> }

TwoColumnMetrics ==
  { <<Metric(mean, rent), Metric(MAX_upper, unit_size)>>,
    <<Metric(min, rent), Metric(min, unit_size)>>,
    <<Metric(sum, rent), Metric(max, rent), Metric(max, unit_size)>> }

SortLists ==
  { <<>>,
    <<SortKey(count, <<"desc">>)>>,
    <<SortKey(rent, <<>>)>>,
    <<SortKey(JoinUnderscore(rent, mean), <<"desc">>)>>,
    <<SortKey(nonexistent_col, <<"asc">>)>>,
    <<SortKey(unit_size, <<"asc">>), SortKey(count, <<"DESC">>)>> }

Limits == {<<>>, <<0>>, <<1>>, <<2>>}

AggregatePlans ==
  [task : {aggregate}, filters : CoreFilters,
   groupby : {<<>>, <<unit_size>>, <<nonexistent_col>>},
   metrics : RentMetrics, limit : Limits, sort : SortLists,
   k : {<<>>}, rank_by : {None}]
  \cup
  [task : {aggregate}, filters : {<<>>, <<Filter(rent, "lt", <<1>>)>>},
   groupby : {<<>>}, metrics : TwoColumnMetrics, limit : {<<>>, <<1>>},
   sort : {<<>>, <<SortKey(rent, <<"desc">>)>>}, k : {<<>>}, rank_by : {None}]
  \cup
  [task : {aggregate}, filters : {<<>>},
   groupby : {<<unit_size, rent>>, <<rent>>}, metrics : {<<>>, <<Metric(count, star)>>},
   limit : {<<>>, <<1>>}, sort : {<<>>, <<SortKey(count, <<"desc">>)>>},
   k : {<<>>}, rank_by : {None}]

ListPlans ==
  [task : {list_rows, describe}, filters : CoreFilters,
   groupby : {<<>>, <<unit_size>>, <<nonexistent_col>>, <<unit_size, rent>>},
   metrics : {<<>>, <<Metric(mean, rent)>>}, limit : Limits,
   sort : {<<>>, <<SortKey(rent, <<"desc">>)>>}, k : {<<>>}, rank_by : {None}]

TopkPlans ==
  [task : {topk}, filters : CoreFilters, groupby : {<<>>}, metrics : {<<>>},
   limit : {<<>>, <<1>>}, sort : {<<>>, <<SortKey(unit_size, <<"asc">>)>>},
   k : {<<>>, <<0>>, <<1>>}, rank_by : {None, rent, nonexistent_col}]

SynonymPlans ==
  [task : {groupby, summarize, summary, rows, rank, TopK_mixed, None},
   filters : {<<>>}, groupby : {<<>>, <<unit_size>>},
   metrics : {<<>>, <<Metric(mean, rent)>>}, limit : {<<>>, <<1>>},
   sort : {<<>>}, k : {<<>>, <<1>>}, rank_by : {None, rent}]

OperatorPlans ==
  [task : {list_rows, aggregate}, filters : OpFilters, groupby : {<<>>},
   metrics : {<<>>}, limit : {<<>>}, sort : {<<>>}, k : {<<>>}, rank_by : {None}]

\* plans that name the column unit_size in one of its spellings
SpelledPlans ==
  UNION {
    [task : {list_rows, aggregate}, filters : {<<Filter(sp, "eq", <<1>>)>>},
     groupby : {<<>>}, metrics : {<<>>, <<Metric(sum, sp)>>}, limit : {<<>>},
     sort : {<<>>}, k : {<<>>}, rank_by : {None}]
    \cup
    [task : {list_rows, aggregate}, filters : {<<>>}, groupby : {<<sp>>},
     metrics : {<<>>}, limit : {<<>>}, sort : {<<>>, <<SortKey(sp, <<"desc">>)>>},
     k : {<<>>}, rank_by : {None}]
    \cup
    [task : {topk}, filters : {<<>>}, groupby : {<<>>}, metrics : {<<>>},
     limit : {<<>>}, sort : {<<>>}, k : {<<1>>}, rank_by : {sp}]
    : sp \in Spellings }

PlanSet ==
  AggregatePlans \cup ListPlans \cup TopkPlans \cup SynonymPlans
  \cup OperatorPlans \cup SpelledPlans

\* ------------------------------------------------------------------------
\* Config, planner texts and spreadsheets of the service
\* ------------------------------------------------------------------------
PLANNER_RETRIES == 1
MAX_PREVIEW_ROWS == 50

MaxUploads == 2
MaxAsks == 2

SessionIds == {"s1", "s2"}
Projects == {"p"}
\* Form(...) fields are required: an empty value never reaches the handler
Emails == {"a@x"}
Prompts == {"", "q"}

source_file == <<"_","_","s","o","u","r","c","e","_","f","i","l","e","_","_">>

\* what an uploaded file holds: bytes pd.read_excel cannot read, a sheet with
\* headers only, a sheet with two rows
Sheets == {"corrupt", "empty", "data"}

SheetRows(sheet) ==
  IF sheet = "data"
  THEN <<RowOf(DataColumns, <<Num(1), Num(1)>>), RowOf(DataColumns, <<Num(2), Num(2)>>)>>
  ELSE <<>>

EmptyPlan ==
  [task |-> None, filters |-> <<>>, groupby |-> <<>>, metrics |-> <<>>,
   limit |-> <<>>, sort |-> <<>>, k |-> <<>>, rank_by |-> None]

\* texts the planner model can answer with
PlannerTexts ==
  { "Sure, here is the plan",
    "null",
    "{}",
    "[]",
    "[{\"task\": \"list_rows\"}]",
    "{\"task\": \"list_rows\"}",
    "{\"task\": \"list_rows\", \"filters\": [{\"column\": \"rent\", \"op\": \"lt\", \"value\": 1}]}",
    "{\"task\": \"topk\"}",
    "{\"task\": \"aggregate\", \"groupby\": [\"nope\"]}",
    "{\"task\": \"aggregate\", \"groupby\": [\"unit_size\"], \"metrics\": [{\"agg\": \"mean\", \"column\": \"rent\"}], \"limit\": 1}" }

\* json.loads(text): whether the text parses, the Python type and truth value
\* of what it parses to, and the dict when it is one
json_loads(text) ==
  LET val(type, truthy, dict) ==
        [valid |-> TRUE, type |-> type, truthy |-> truthy, dict |-> dict]
  IN CASE text = "null" -> val("NoneType", FALSE, EmptyPlan)
       [] text = "{}"   -> val("dict", FALSE, EmptyPlan)
       [] text = "[]"   -> val("list", FALSE, EmptyPlan)
       [] text = "[{\"task\": \"list_rows\"}]" -> val("list", TRUE, EmptyPlan)
       [] text = "{\"task\": \"list_rows\"}" ->
            val("dict", TRUE, [EmptyPlan EXCEPT !.task = list_rows])
       [] text = "{\"task\": \"list_rows\", \"filters\": [{\"column\": \"rent\", \"op\": \"lt\", \"value\": 1}]}" ->
            val("dict", TRUE, [EmptyPlan EXCEPT !.task = list_rows,
                                 !.filters = <<Filter(rent, "lt", <<1>>)>>])
       [] text = "{\"task\": \"topk\"}" ->
            val("dict", TRUE, [EmptyPlan EXCEPT !.task = topk])
       [] text = "{\"task\": \"aggregate\", \"groupby\": [\"nope\"]}" ->
            val("dict", TRUE, [EmptyPlan EXCEPT !.task = aggregate,
                                 !.groupby = <<nonexistent_col>>])
       [] text = "{\"task\": \"aggregate\", \"groupby\": [\"unit_size\"], \"metrics\": [{\"agg\": \"mean\", \"column\": \"rent\"}], \"limit\": 1}" ->
            val("dict", TRUE, [EmptyPlan EXCEPT !.task = aggregate,
                                 !.groupby = <<unit_size>>,
                                 !.metrics = <<Metric(mean, rent)>>,
                                 !.limit = <<1>>])
       [] OTHER -> [valid |-> FALSE, type |-> "NoneType", truthy |-> FALSE,
                    dict |-> EmptyPlan]

\* Python None as a plan value
PyNone == [type |-> "NoneType", truthy |-> FALSE, dict |-> EmptyPlan]

\* plan_once(): json.loads(text), None when it raises
plan_once(text) ==
  LET v == json_loads(text)
  IN IF v.valid THEN [type |-> v.type, truthy |-> v.truthy, dict |-> v.dict]
     ELSE PyNone

\* DataFrame.empty: no rows or no columns
IsEmptyFrame(t) == t.rows = <<>> \/ t.cols = <<>>

\* ------------------------------------------------------------------------
\* State
\* ------------------------------------------------------------------------
VARIABLES
  df, plan, alias_map, final_plan, result, epc,   \* the executor pipeline
  session_data,      \* session id -> [email, project, questions, files]
  s3_objects,        \* S3 key -> what the stored file holds
  ask,               \* the locals of the ask_question call in progress
  response,          \* the last response a handler returned
  planner_texts,     \* the texts plan_once() got so far in the ask in progress
  exec_runs,         \* calls of _execute_plan by the latest ask
  exec_outcome,      \* how the plan stage of the latest ask ended
  fallback_calls,    \* fallback analyst calls by the latest ask
  answered,          \* session id -> asks that returned an answer
  n_uploads, n_asks  \* requests received

evars == <<df, plan, alias_map, final_plan, result, epc>>
svars == <<session_data, s3_objects, ask, response, planner_texts, exec_runs,
           exec_outcome, fallback_calls, answered, n_uploads, n_asks>>
vars == <<evars, svars>>

NotRun == [raised |-> FALSE, msg |-> Msg("not run", 0, None), present |-> FALSE,
           table |-> NoTable]

NoAnswer == [kind |-> "none", msg |-> Msg("", 0, None), preview_rows |-> 0,
             csv |-> NoTable]

NoResponse == [handler |-> "none", status |-> 0, detail |-> "", answer |-> NoAnswer]

NoAsk ==
  [pc |-> "idle", session_id |-> "", user_q |-> "", df |-> NoTable,
   alias_map |-> EmptyDict, plan |-> PyNone, used_fallback |-> FALSE,
   summary_msg |-> Msg("", 0, None), table_present |-> FALSE, table |-> NoTable]

ServiceIdle ==
  /\ session_data = EmptyDict
  /\ s3_objects = EmptyDict
  /\ ask = NoAsk
  /\ response = NoResponse
  /\ planner_texts = <<>>
  /\ exec_runs = 0
  /\ exec_outcome = "none"
  /\ fallback_calls = 0
  /\ answered = [sid \in SessionIds |-> 0]
  /\ n_uploads = 0
  /\ n_asks = 0

\* ------------------------------------------------------------------------
\* The executor pipeline as ask_question runs it: alias map, remap, execute
\* ------------------------------------------------------------------------
InitExec ==
  /\ df \in TableSet
  /\ plan \in PlanSet
  /\ alias_map = EmptyDict
  /\ final_plan = plan
  /\ result = NotRun
  /\ epc = "start"
  /\ ServiceIdle

\* alias_map = _column_alias_map([c for c in cols if c != "__source_file__"])
ResolveAliases ==
  /\ epc = "start"
  /\ alias_map' = _column_alias_map(df.cols)
  /\ epc' = "aliased"
  /\ UNCHANGED <<df, plan, final_plan, result, svars>>

\* plan = _remap_plan_columns(plan, alias_map)
RemapPlan ==
  /\ epc = "aliased"
  /\ final_plan' = _remap_plan_columns(plan, alias_map)
  /\ epc' = "remapped"
  /\ UNCHANGED <<df, plan, alias_map, result, svars>>

\* summary_msg, table = _execute_plan(df, plan)
ExecutePlan ==
  /\ epc = "remapped"
  /\ \E r \in _execute_plan(df, final_plan) : result' = r
  /\ epc' = "done"
  /\ UNCHANGED <<df, plan, alias_map, final_plan, svars>>

NextExec == ResolveAliases \/ RemapPlan \/ ExecutePlan

SpecExec == InitExec /\ [][NextExec]_vars

\* ------------------------------------------------------------------------
\* Routes
\* ------------------------------------------------------------------------
Init ==
  /\ df = NoTable
  /\ plan = EmptyPlan
  /\ alias_map = EmptyDict
  /\ final_plan = EmptyPlan
  /\ result = NotRun
  /\ epc = "off"
  /\ ServiceIdle

HttpError(handler, status, detail) ==
  [handler |-> handler, status |-> status, detail |-> detail, answer |-> NoAnswer]

HttpAnswer(answer) ==
  [handler |-> "ask", status |-> 200, detail |-> "", answer |-> answer]

\* the answer is returned without being recorded in the session
AppendQuestion_NotRecorded(sessions, session_id, user_q, answer) ==
  sessions

\* sess.setdefault("questions", []).append({"question": q, "answer": a})
AppendQuestion(sessions, session_id, user_q, answer) ==
  [sessions EXCEPT ![session_id].questions =
     Append(@, [question |-> user_q, answer |-> answer])]

\* session_data.setdefault(session_id, {...}), then email, project and files
RegisterUpload(sessions, session_id, projectName, email, s3_key) ==
  LET sess == IF session_id \in DOMAIN sessions THEN sessions[session_id]
              ELSE [email |-> email, project |-> projectName,
                    questions |-> <<>>, files |-> <<>>]
  IN DictSet(sessions, session_id,
       [sess EXCEPT !.email   = IF email # "" THEN email ELSE sess.email,
                    !.project = IF projectName # "" THEN projectName ELSE sess.project,
                    !.files   = Append(@, s3_key)])

\* POST /api/upload; session_id_form "" is the form field left out, and
\* outcome says how far the S3 calls get
upload_excel(projectName, email, sheet, session_id_form, outcome) ==
  /\ ask.pc = "idle"
  /\ n_uploads < MaxUploads
  /\ \E session_id \in (IF session_id_form = ""
                        THEN SessionIds \ DOMAIN session_data   \* str(uuid4())
                        ELSE {session_id_form}) :
       LET s3_key == [project |-> projectName, session_id |-> session_id,
                      name |-> n_uploads + 1]
       IN /\ s3_objects' = IF outcome = "upload_fileobj raises" THEN s3_objects
                           ELSE DictSet(s3_objects, s3_key, sheet)
          /\ IF outcome = "ok"
             THEN /\ session_data' = RegisterUpload(session_data, session_id,
                                                    projectName, email, s3_key)
                  /\ response' = [handler |-> "upload", status |-> 200,
                                  detail |-> session_id, answer |-> NoAnswer]
             ELSE /\ session_data' = session_data
                  /\ response' = HttpError("upload", 500, "Upload failed.")
  /\ n_uploads' = n_uploads + 1
  /\ UNCHANGED <<ask, planner_texts, exec_runs, exec_outcome, fallback_calls, answered,
                 n_asks, evars>>

MergedColumns == <<source_file>> \o DataColumns

\* the frames of the files that load, concatenated; each row carries the
\* number of the key it came from in __source_file__
RECURSIVE LoadedRows(_, _, _)
LoadedRows(objects, keys, s3_down) ==
  IF keys = <<>> THEN <<>>
  ELSE LET k == Head(keys)
           rs == SheetRows(objects[k])
       IN [i \in DOMAIN rs |->
             [c \in Range(MergedColumns) |->
                IF c = source_file THEN Num(k.name) ELSE rs[i][c]]]
          \o LoadedRows(objects, Tail(keys), s3_down)

_load_merged_session_df(objects, sess, s3_down) ==
  LET loads(k) == ~s3_down /\ objects[k] # "corrupt"
      keys == SelectSeq(sess.files, loads)
  IN IF keys = <<>> THEN NoTable
     ELSE [cols |-> MergedColumns, rows |-> LoadedRows(objects, keys, s3_down)]

\* POST /api/ask up to the first planner call: the request checks, the load
\* of the session's files and the alias map
AskReceive(session_id, user_q, s3_down) ==
  /\ ask.pc = "idle"
  /\ n_asks < MaxAsks
  /\ n_asks' = n_asks + 1
  /\ planner_texts' = <<>>
  /\ exec_runs' = 0
  /\ exec_outcome' = "none"
  /\ fallback_calls' = 0
  /\ LET req == NoAsk
     IN IF session_id = "" \/ user_q = ""
        THEN /\ response' = HttpError("ask", 400, "Missing session_id or prompt.")
             /\ ask' = req
        ELSE IF session_id \notin DOMAIN session_data
                \/ session_data[session_id].files = <<>>
        THEN /\ response' = HttpError("ask", 400, "No files found for this session.")
             /\ ask' = req
        ELSE LET merged == _load_merged_session_df(s3_objects, session_data[session_id],
                                                   s3_down)
             IN IF IsEmptyFrame(merged)
                THEN /\ response' = HttpError("ask", 400,
                                      "Could not load any data from uploaded files.")
                     /\ ask' = req
                ELSE /\ response' = NoResponse
                     /\ ask' = [req EXCEPT
                                  !.pc = "plan",
                                  !.session_id = session_id,
                                  !.user_q = user_q,
                                  !.df = merged,
                                  !.alias_map = _column_alias_map(
                                     LET data(c) == c # source_file
                                     IN SelectSeq(merged.cols, data))]
  /\ UNCHANGED <<session_data, s3_objects, answered, n_uploads, evars>>

OpenAIError == "openai.error"

\* plan = plan_once(): the first planner call
AskPlanFirst(text) ==
  /\ ask.pc = "plan"
  /\ IF text = OpenAIError
     THEN /\ response' = HttpError("ask", 500, "ask failed")
          /\ ask' = NoAsk
          /\ planner_texts' = <<>>
     ELSE /\ planner_texts' = Append(planner_texts, text)
          /\ LET p == plan_once(text)
             IN ask' = [ask EXCEPT
                          !.plan = p,
                          !.pc = IF p.type = "NoneType" /\ PLANNER_RETRIES > 0
                                 THEN "retry" ELSE "execute"]
          /\ response' = response
  /\ UNCHANGED <<session_data, s3_objects, exec_runs, exec_outcome, fallback_calls,
                 answered, n_uploads, n_asks, evars>>

\* plan = plan_once() again, when the first call gave None
AskPlanRetry(text) ==
  /\ ask.pc = "retry"
  /\ IF text = OpenAIError
     THEN /\ response' = HttpError("ask", 500, "ask failed")
          /\ ask' = NoAsk
          /\ planner_texts' = <<>>
     ELSE /\ planner_texts' = Append(planner_texts, text)
          /\ ask' = [ask EXCEPT !.plan = plan_once(text), !.pc = "execute"]
          /\ response' = response
  /\ UNCHANGED <<session_data, s3_objects, exec_runs, exec_outcome, fallback_calls,
                 answered, n_uploads, n_asks, evars>>

\* if plan: remap and execute, the executor's exceptions caught; else fallback
AskExecute ==
  /\ ask.pc = "execute"
  /\ IF ask.plan.truthy
     THEN IF ask.plan.type # "dict"
          THEN \* _remap_plan_columns raises AttributeError outside the inner try
               /\ response' = HttpError("ask", 500, "ask failed")
               /\ ask' = NoAsk
               /\ planner_texts' = <<>>
               /\ UNCHANGED <<exec_runs, exec_outcome>>
          ELSE /\ exec_runs' = exec_runs + 1
               /\ \E r \in _execute_plan(ask.df,
                                         _remap_plan_columns(ask.plan.dict, ask.alias_map)) :
                    /\ ask' = IF r.raised
                              THEN [ask EXCEPT !.pc = "answer", !.used_fallback = TRUE]
                              ELSE [ask EXCEPT !.pc = "answer",
                                               !.summary_msg = r.msg,
                                               !.table_present = r.present,
                                               !.table = r.table]
                    /\ exec_outcome' = IF r.raised THEN "raised"
                                       ELSE IF ~r.present THEN "absent"
                                       ELSE IF IsEmptyFrame(r.table) THEN "empty"
                                       ELSE "rows"
               /\ UNCHANGED <<response, planner_texts>>
     ELSE /\ ask' = [ask EXCEPT !.pc = "answer", !.used_fallback = TRUE]
          /\ exec_outcome' = "no plan"
          /\ UNCHANGED <<response, planner_texts, exec_runs>>
  /\ UNCHANGED <<session_data, s3_objects, fallback_calls, answered,
                 n_uploads, n_asks, evars>>

HasTable == ask.table_present /\ ~IsEmptyFrame(ask.table)

\* the table answer: the summary and a preview of the first rows
AskAnswerTable ==
  /\ ask.pc = "answer"
  /\ HasTable
  /\ LET preview_rows == Smaller(Len(ask.table.rows), MAX_PREVIEW_ROWS)
         full_answer == [kind |-> "table", msg |-> ask.summary_msg,
                         preview_rows |-> preview_rows,
                         csv |-> [cols |-> ask.table.cols,
                                  rows |-> DfHead(ask.table.rows, preview_rows)]]
     IN /\ session_data' = AppendQuestion(session_data, ask.session_id, ask.user_q,
                                          full_answer)
        /\ response' = HttpAnswer(full_answer)
  /\ answered' = [answered EXCEPT ![ask.session_id] = @ + 1]
  /\ ask' = NoAsk
  /\ planner_texts' = <<>>
  /\ UNCHANGED <<s3_objects, exec_runs, exec_outcome, fallback_calls, n_uploads,
                 n_asks, evars>>

\* the fallback analyst call and its answer
AskFallback(reply) ==
  /\ ask.pc = "answer"
  /\ ~HasTable
  /\ fallback_calls' = fallback_calls + 1
  /\ IF reply = OpenAIError
     THEN /\ response' = HttpError("ask", 500, "ask failed")
          /\ UNCHANGED <<session_data, answered>>
     ELSE LET answer == [kind |-> "fallback", msg |-> Msg(reply, 0, None),
                         preview_rows |-> 0, csv |-> NoTable]
          IN /\ session_data' = AppendQuestion(session_data, ask.session_id,
                                               ask.user_q, answer)
             /\ response' = HttpAnswer(answer)
             /\ answered' = [answered EXCEPT ![ask.session_id] = @ + 1]
  /\ ask' = NoAsk
  /\ planner_texts' = <<>>
  /\ UNCHANGED <<s3_objects, exec_runs, exec_outcome, n_uploads, n_asks, evars>>

Next ==
  \/ \E projectName \in Projects, email \in Emails, sheet \in Sheets,
        session_id_form \in SessionIds \cup {""},
        outcome \in {"upload_fileobj raises", "head_object raises", "ok"} :
       upload_excel(projectName, email, sheet, session_id_form, outcome)
  \/ \E session_id \in SessionIds \cup {""}, user_q \in Prompts, s3_down \in BOOLEAN :
       AskReceive(session_id, user_q, s3_down)
  \/ \E text \in PlannerTexts \cup {OpenAIError} : AskPlanFirst(text)
  \/ \E text \in PlannerTexts \cup {OpenAIError} : AskPlanRetry(text)
  \/ AskExecute
  \/ AskAnswerTable
  \/ \E reply \in {"analysis", OpenAIError} : AskFallback(reply)

Spec == Init /\ [][Next]_vars

\* ------------------------------------------------------------------------
\* Properties of the executor pipeline
\* ------------------------------------------------------------------------
Done == epc = "done"

TaskOf(p) == Lower(IF p.task = None THEN aggregate ELSE p.task)
AggregateTasks == {aggregate, groupby, summarize, summary}
Work == _apply_filters(df, final_plan.filters)

\* the limit the plan asks for: k for topk, limit otherwise, 10 and 50 when
\* the plan gives none
RequestedLimit(p) ==
  IF TaskOf(p) \in {topk, rank}
  THEN IF p.k = <<>> THEN DEFAULT_K ELSE p.k[1]
  ELSE IF p.limit = <<>> THEN DEFAULT_LIMIT ELSE p.limit[1]

\* C1: whatever the task and the plan, the returned table has at most
\* min(L, M) rows, L the requested limit (k for topk) and M the number of
\* rows that pass the filters; limit 0, k 0 and aggregates over no row included.
C1_LimitContract ==
  (Done /\ result.present) =>
    Len(result.table.rows) <= Smaller(RequestedLimit(final_plan), Len(Work.rows))

\* the plan with every spelling of unit_size replaced by one spelling
Respell(p, to) ==
  LET re(name) == IF name \in Spellings THEN to ELSE name
  IN [p EXCEPT
        !.filters = [i \in DOMAIN p.filters |-> [p.filters[i] EXCEPT !.column = re(@)]],
        !.groupby = [i \in DOMAIN p.groupby |-> re(p.groupby[i])],
        !.metrics = [i \in DOMAIN p.metrics |-> [p.metrics[i] EXCEPT !.column = re(@)]],
        !.sort    = [i \in DOMAIN p.sort |-> [p.sort[i] EXCEPT !.column = re(@)]],
        !.rank_by = re(p.rank_by)]

\* C2: on a table whose real column is unit_size the alias map sends the
\* spellings "Unit Size", "unit_size" and "UnitSize" to unit_size, and the
\* result of a plan is a result of the same plan in each of the other spellings.
C2_AliasInvariance ==
  Done =>
    /\ \A sp \in Spellings : map_col(sp, alias_map) = unit_size
    /\ \A sp \in Spellings :
         result \in _execute_plan(df, _remap_plan_columns(Respell(plan, sp), alias_map))

\* the plan without the filter clauses, groupby entries and metrics whose
\* column is not a column of the table
DropUnresolvable(p, cols) ==
  LET known(f) == f.column \in Range(cols)
      knownName(g) == g \in Range(cols)
      knownMetric(m) == m.column \in {None, star} \/ m.column \in Range(cols)
  IN [p EXCEPT !.filters = SelectSeq(p.filters, known),
               !.groupby = SelectSeq(p.groupby, knownName),
               !.metrics = SelectSeq(p.metrics, knownMetric)]

\* C3: a filter clause, groupby entry or metric on a column the table does not
\* have is dropped silently: the plan neither raises nor loses its table, and
\* its result is that of the plan without the clause, entry or metric.
C3_FailOpenColumns ==
  Done => result \in _execute_plan(df, DropUnresolvable(final_plan, df.cols))

\* C4: the only plans without a table are topk (or rank) plans whose rank_by is
\* missing or not a column; every other plan returns a present table and
\* nothing raises.
C4_SoleHardFailure ==
  Done =>
    /\ ~result.raised
    /\ ~result.present <=>
         /\ TaskOf(final_plan) \in {topk, rank}
         /\ final_plan.rank_by = None \/ final_plan.rank_by \notin Range(df.cols)

\* the metrics left once the invalid ones are dropped: an allowed aggregate
\* that is a column-less (or "*") count or names an existing column
IsBareCount(m) == RENAME_AGG(Lower(m.agg)) = count /\ m.column \in {None, star}
IsValidMetric(m, cols) ==
  /\ RENAME_AGG(Lower(m.agg)) \in ALLOWED_AGGS
  /\ IsBareCount(m) \/ m.column \in Range(cols)
ValidMetrics(p, cols) == LET ok(m) == IsValidMetric(m, cols) IN SelectSeq(p.metrics, ok)

\* C5: an aggregate returns the count-only table when the first valid metric
\* is a column-less (or "*") count or when no valid metric is left; otherwise
\* every valid (column, agg) pair is an output column named column_agg, also
\* when a column-less count comes later in the list.
C5_MetricDispatch ==
  (Done /\ TaskOf(final_plan) \in AggregateTasks /\ ~result.raised) =>
    LET vm == ValidMetrics(final_plan, df.cols)
    IN IF vm = <<>> \/ IsBareCount(vm[1])
       THEN result.table.cols = final_plan.groupby \o <<count>>
       ELSE \A i \in DOMAIN vm :
              ~IsBareCount(vm[i]) =>
                 JoinUnderscore(vm[i].column, RENAME_AGG(Lower(vm[i].agg)))
                   \in Range(result.table.cols)

\* C6: an aggregate without groupby and with at least one valid (column, agg)
\* metric returns exactly one row, however many metrics and aggregate kinds
\* the plan has.
C6_UngroupedSingleRow ==
  ( /\ Done
    /\ TaskOf(final_plan) \in AggregateTasks
    /\ final_plan.groupby = <<>>
    /\ \E i \in DOMAIN final_plan.metrics :
         /\ IsValidMetric(final_plan.metrics[i], df.cols)
         /\ ~IsBareCount(final_plan.metrics[i])
    /\ ~result.raised )
  => Len(result.table.rows) = 1

\* the task a task string stands for
CanonicalTask(task) ==
  LET t == Lower(task)
  IN IF t \in AggregateTasks THEN aggregate
     ELSE IF t \in {topk, rank} THEN topk
     ELSE list_rows

\* C7: the task is matched without regard to case, the synonyms behave as the
\* task they stand for, and an unrecognized task behaves exactly as list_rows,
\* a non-empty groupby included.
C7_TaskDispatch ==
  (Done /\ final_plan.task # None) =>
    result \in _execute_plan(df, [final_plan EXCEPT !.task = CanonicalTask(@)])

\* a sorts strictly before b under the sort keys, the first key being the
\* most significant; NaN sorts last
RECURSIVE RowBefore(_, _, _)
RowBefore(a, b, sort) ==
  IF sort = <<>> THEN FALSE
  ELSE LET col == Head(sort).column
       IN IF a[col] = b[col] THEN RowBefore(a, b, Tail(sort))
          ELSE InOrder(a[col], b[col], Ascending(Head(sort)))

\* rs in the order of the sort keys, ties kept in their order in rs
StableSorted(rs, sort) ==
  LET q == CHOOSE p \in Perms(Len(rs)) :
             \A i, j \in 1..Len(rs) :
               i < j => \/ RowBefore(rs[p[i]], rs[p[j]], sort)
                        \/ ~RowBefore(rs[p[j]], rs[p[i]], sort) /\ p[i] < p[j]
  IN [i \in DOMAIN rs |-> rs[q[i]]]

\* C8: with explicit sort keys every task sorts its output (aggregation,
\* projection or ranking) before truncating it: the rows returned are the
\* first limit rows of the stably sorted output.
C8_SortThenLimit ==
  ( /\ Done
    /\ final_plan.sort # <<>>
    /\ ~result.raised /\ result.present
    /\ \A i \in DOMAIN final_plan.sort :
         final_plan.sort[i].column \in Range(result.table.cols) )
  => \E pre \in _execute_plan(df, [final_plan EXCEPT !.sort = <<>>, !.limit = <<>>,
                                                     !.k = <<>>]) :
       /\ pre.present
       /\ result.table.rows =
            DfHead(StableSorted(pre.table.rows, final_plan.sort),
                   IF TaskOf(final_plan) \in {topk, rank}
                   THEN IntOr(final_plan.k, DEFAULT_K)
                   ELSE IntOr(final_plan.limit, DEFAULT_LIMIT))



\* ------------------------------------------------------------------------
\* Properties of the routes
\* ------------------------------------------------------------------------
\* a step that belongs to an ask request, and one in which the request returns
AskStep == ask.pc # "idle" \/ n_asks' # n_asks
AskReturns == AskStep /\ ask'.pc = "idle"

\* an ask step that returns an answer appends one {question, answer} entry to
\* the session's questions and changes nothing else; every other ask step
\* leaves session_data as it is
C9_Step ==
  AskStep =>
    IF AskReturns /\ response'.status = 200
    THEN /\ ask.session_id \in DOMAIN session_data
         /\ session_data' =
              [session_data EXCEPT ![ask.session_id].questions =
                 Append(@, [question |-> ask.user_q, answer |-> response'.answer])]
         /\ response'.answer.kind \in {"table", "fallback"}
    ELSE session_data' = session_data

C9_Count ==
  \A sid \in DOMAIN session_data : Len(session_data[sid].questions) = answered[sid]

\* C9: every ask that returns an answer appends exactly one entry to its
\* session's questions and changes nothing else in session_data, every ask
\* that ends in an error leaves session_data unchanged, and so the length of a
\* session's questions is the number of its asks that returned an answer.
C9_SessionBookkeeping == [][C9_Step]_vars /\ []C9_Count

\* a session holds a table answer and a fallback answer, or an answer is
\* followed by an ask that failed after its planner call
C9_Witness ==
  \E sid \in DOMAIN session_data :
    /\ Len(session_data[sid].questions) >= 1
    /\ answered[sid] >= 1
    /\ \/ /\ Len(session_data[sid].questions) = 2
          /\ session_data[sid].questions[1].answer.kind = "table"
          /\ session_data[sid].questions[2].answer.kind = "fallback"
       \/ /\ response.handler = "ask" /\ response.status = 500
          /\ fallback_calls = 1

\* C10: per ask the planner is called at most 1 + PLANNER_RETRIES times, the
\* second time only if the first text was not valid JSON; _execute_plan runs
\* at most once and only on a non-empty plan that the last planner call
\* returned; a table answer is returned only after the executor gave a
\* present, non-empty table, and with no plan, an empty plan, an executor
\* exception or an absent or empty table the fallback analyst call is made.
C10_PlannerRetryAndFallback ==
  /\ Len(planner_texts) <= 1 + PLANNER_RETRIES
  /\ Len(planner_texts) = 2 => ~json_loads(planner_texts[1]).valid
  /\ exec_runs <= 1
  /\ (ask.pc = "answer" /\ exec_runs = 1) =>
       /\ ask.plan.truthy
       /\ ask.plan = plan_once(planner_texts[Len(planner_texts)])
  /\ (response.handler = "ask" /\ response.status = 200) =>
       IF response.answer.kind = "table"
       THEN exec_outcome = "rows" /\ fallback_calls = 0
       ELSE exec_outcome # "rows" /\ fallback_calls = 1
  /\ (ask.pc = "idle" /\ exec_outcome \in {"no plan", "raised", "absent", "empty"}) =>
       fallback_calls = 1

====
